---- MODULE Spec2Model ----
(***************************************************************************)
(* Model of the SubstraFL / cervical-cell k-fold evaluation harness of     *)
(* src/results_implementation.py (lines 197-311): get_model,               *)
(* calculate_metrics and federated_kfold_cross_validation, together with   *)
(* the library calls the harness makes (StratifiedKFold.split,             *)
(* confusion_matrix, accuracy_score, roc_auc_score, DataFrame.mean).       *)
(* Beside it: the argmax pipeline's calculate_metrics (lines 513-519,      *)
(* 530-532) and the Fed-BioMed colorectal script's federated_training and  *)
(* __main__ (lines 965-1001).                                              *)
(* And the Flower client CervicalCellClient (lines 639-658).                *)
(*                                                                         *)
(* Abstractions.                                                           *)
(*  - A sample is identified with its index 1..NumSamples (the model's     *)
(*    index i is numpy's index i-1); images[idx] is the index sequence.    *)
(*  - A float is an exact rational <<n, d>> in lowest terms, d > 0;        *)
(*    numpy's nan is <<0, 0>>.                                             *)
(*  - A probability is an integer number of tenths (5 is 0.5).             *)
(*  - numpy's RandomState (MT19937) is a linear congruential generator     *)
(*    modulo 16; the shuffle is numpy's Fisher-Yates loop.                 *)
(*  - The trainer and model.predict are opaque: the trainer either returns *)
(*    or raises, predict returns any vector over PredictValues.            *)
(***************************************************************************)
EXTENDS Integers, Sequences, FiniteSets

VARIABLES
    labels,        \* argument `labels`: label of sample i
    models,        \* argument `models`: the requested model ids
    k,             \* argument `k`
    pc,            \* position in federated_kfold_cross_validation
    mi,            \* number of the model the outer loop is at (0 before it)
    model_name,    \* loop variable of the outer loop
    splits,        \* what skf.split(images, labels) yields for this model
    fold,          \* fold + 1 of the inner loop (0 before its first pass)
    train_idx,     \* loop variable of the inner loop
    test_idx,      \* loop variable of the inner loop
    x_train,       \* images[train_idx], as indices
    x_test,        \* images[test_idx], as indices
    fold_results,  \* local list of per-fold records of the current model
    results,       \* local list of per-model summary rows
    outcome,       \* how the call ended: running, returned (value) or raised
    npGlobalRng,   \* state of numpy's process-wide RandomState
    trace,         \* history: the calls and prints made so far, in order
    fold_owner,    \* history: for each entry of fold_results, the model it was computed for
    model,         \* local `model`: the instance it is bound to (0 before the first)
    created,       \* history: number of model instances get_model has built
    m_y_true,      \* calculate_metrics called alone: argument y_true
    m_y_pred_prob, \* calculate_metrics called alone: column 1 of y_pred_prob
    m_col0,        \* calculate_metrics called alone: column 0 of y_pred_prob
    m_pc,          \* calculate_metrics called alone: "idle", "ready", "done"
    m_out,         \* calculate_metrics called alone: its outcome
    m_out_argmax,  \* the argmax pipeline's calculate_metrics on the same data: its outcome
    fb_pc,         \* Fed-BioMed script: position in federated_training and __main__
    fb_test_labels, \* Fed-BioMed script: test_labels
    fb_status,     \* Fed-BioMed script: result.status of env.run ("none" before it)
    fb_predictions, \* Fed-BioMed script: local `predictions`
    fb_metrics,    \* Fed-BioMed script: what federated_training returned
    fb_trace,      \* history: the calls and prints of the Fed-BioMed script, in order
    fc_pc,         \* Flower client: "idle", "serving" or "raised"
    fc_weights,    \* Flower client: the weights of self.model
    fc_train_len,  \* Flower client: len(self.train_images)
    fc_test_labels, \* Flower client: self.test_labels
    fc_calls,      \* Flower client: number of calls the server has made
    fc_last        \* history: the last call of fit or evaluate, what it was given and did

vars == <<labels, models, k, pc, mi, model_name, splits, fold, train_idx,
          test_idx, x_train, x_test, fold_results, results, outcome,
          npGlobalRng, trace, fold_owner, model, created,
          m_y_true, m_y_pred_prob, m_col0, m_pc, m_out, m_out_argmax,
          fb_pc, fb_test_labels, fb_status, fb_predictions, fb_metrics, fb_trace,
          fc_pc, fc_weights, fc_train_len, fc_test_labels, fc_calls, fc_last>>

harnessVars == <<labels, models, k, pc, mi, model_name, splits, fold,
                 train_idx, test_idx, x_train, x_test, fold_results, results,
                 outcome, npGlobalRng, trace, fold_owner, model, created>>

metricVars == <<m_y_true, m_y_pred_prob, m_col0, m_pc, m_out, m_out_argmax>>

fbVars == <<fb_pc, fb_test_labels, fb_status, fb_predictions, fb_metrics, fb_trace>>

fcVars == <<fc_pc, fc_weights, fc_train_len, fc_test_labels, fc_calls, fc_last>>

----------------------------------------------------------------------------
(* Bounds of the model. *)

NumSamples == 4
MaxK == 3
MaxLen == 3
MaxCount == 5
MaxCalls == 2

\* The lists of model ids a caller passes; "vgg" is not an id get_model knows.
RequestedLists ==
    {<<>>, <<"resnet">>, <<"vgg">>, <<"resnet", "bfnet">>, <<"bfnet", "resnet">>,
     <<"resnet", "resnet">>, <<"resnet", "vgg">>, <<"vgg", "resnet">>,
     <<"resnet", "vgg", "bfnet">>}

\* Positive-class probabilities, in tenths, calculate_metrics is called with
\* on its own.
ProbValues == {2, 5, 8}

\* Positive-class probabilities, in tenths, the trained model's predict may
\* return in the harness: at the threshold and above it.
PredictValues == {5, 8}

----------------------------------------------------------------------------
(* Rationals standing for floats. *)

RECURSIVE GCD(_, _)
GCD(a, b) == IF b = 0 THEN a ELSE GCD(b, a % b)

NaN == <<0, 0>>

IsNaN(r) == r[2] = 0

Frac(n, d) == IF d = 0 THEN NaN ELSE LET g == GCD(n, d) IN <<n \div g, d \div g>>

RAdd(a, b) == IF IsNaN(a) \/ IsNaN(b) THEN NaN
              ELSE Frac(a[1] * b[2] + b[1] * a[2], a[2] * b[2])

RDivInt(a, n) == IF IsNaN(a) THEN NaN ELSE Frac(a[1], a[2] * n)

\* IEEE comparison: nan equals nothing and is ordered with nothing.
REq(a, b) == ~IsNaN(a) /\ ~IsNaN(b) /\ a[1] * b[2] = b[1] * a[2]

RLe(a, b) == ~IsNaN(a) /\ ~IsNaN(b) /\ a[1] * b[2] <= b[1] * a[2]

RECURSIVE RSum(_)
RSum(s) == IF Len(s) = 0 THEN Frac(0, 1) ELSE RAdd(Head(s), RSum(Tail(s)))

----------------------------------------------------------------------------
(* Sequences and index sets. *)

RECURSIVE SortedSeq(_)
SortedSeq(S) ==
    IF S = {} THEN <<>>
    ELSE LET m == CHOOSE x \in S : \A y \in S : x <= y
         IN <<m>> \o SortedSeq(S \ {m})

Range(s) == {s[i] : i \in DOMAIN s}

\* a[idx] for an index sequence idx (numpy fancy indexing).
Take(a, idx) == [i \in DOMAIN idx |-> a[idx[i]]]

----------------------------------------------------------------------------
(* get_model (lines 202-256). *)

\* The names of the if/elif chain; any other name reaches the else branch.
SupportedModels == {"resnet", "alexnet", "zfnet", "bionnica", "bfnet"}

\* The outcome of get_model(name): a compiled model, or the ValueError.
get_model(name) ==
    IF name \in SupportedModels
    THEN [status |-> "ok", error |-> "none"]
    ELSE [status |-> "raised", error |-> "ValueError: Unsupported model name."]

----------------------------------------------------------------------------
(* calculate_metrics (lines 258-266) and the sklearn.metrics calls in it. *)

\* The default of the parameter threshold, 0.5, in tenths.
threshold == 5

\* The matrix whose rows are <<c0[i], c1[i]>>: column 0 and column 1.
Rows(c0, c1) == [i \in DOMAIN c1 |-> <<c0[i], c1[i]>>]

\* The output of a softmax layer of two units (get_model, lines 202-249) whose
\* column 1 is c1: each row sums to 1, that is to 10 tenths.
SoftmaxRows(c1) == [i \in DOMAIN c1 |-> <<10 - c1[i], c1[i]>>]

\* Column 0 of the matrix.
Column0(y_pred_prob) == [i \in DOMAIN y_pred_prob |-> y_pred_prob[i][1]]

\* y_pred_prob[:, 1] (lines 259 and 265).
Column1(y_pred_prob) == [i \in DOMAIN y_pred_prob |-> y_pred_prob[i][2]]

\* Class 1 also at the threshold itself.
Binarize_at_or_above(prob) == [i \in DOMAIN prob |-> IF prob[i] >= threshold THEN 1 ELSE 0]

\* Line 259: (... > threshold).astype(int).
Binarize(prob) == [i \in DOMAIN prob |-> IF prob[i] > threshold THEN 1 ELSE 0]

\* sklearn's unique_labels(y_true, y_pred), sorted.
unique_labels(y_true, y_pred) == SortedSeq(Range(y_true) \cup Range(y_pred))

\* sklearn's confusion_matrix(y_true, y_pred).ravel(): one row and one column
\* per label that occurs in y_true or y_pred, row-major.  With a single label
\* the matrix is 1x1 and ravel() has a single entry.
confusion_matrix_ravel(y_true, y_pred) ==
    LET lab == unique_labels(y_true, y_pred)
        n == Len(lab)
    IN [j \in 1..(n * n) |->
          Cardinality({i \in DOMAIN y_true :
                          /\ y_true[i] = lab[((j - 1) \div n) + 1]
                          /\ y_pred[i] = lab[((j - 1) % n) + 1]})]

\* sklearn's accuracy_score: the fraction of positions where the two agree.
accuracy_score(y_true, y_pred) ==
    Frac(Cardinality({i \in DOMAIN y_true : y_true[i] = y_pred[i]}), Len(y_true))

\* The area under the ROC curve when both classes occur: the fraction of
\* (positive, negative) pairs ranked correctly, a tie counting one half.
AucValue(y_true, score) ==
    LET pos == {i \in DOMAIN y_true : y_true[i] = 1}
        neg == {i \in DOMAIN y_true : y_true[i] = 0}
        gt == Cardinality({p \in pos \X neg : score[p[1]] > score[p[2]]})
        eq == Cardinality({p \in pos \X neg : score[p[1]] = score[p[2]]})
    IN Frac(2 * gt + eq, 2 * Cardinality(pos) * Cardinality(neg))

\* sklearn's roc_auc_score(y_true, score): the set of its possible outcomes.
\* With one class in y_true, scikit-learn before 1.6 raises ValueError ("Only
\* one class present in y_true"); later releases warn and return nan.  The
\* script installs scikit-learn unpinned, so both are outcomes.
roc_auc_score(y_true, score) ==
    IF Cardinality(Range(y_true)) # 2
    THEN {[status |-> "raised", value |-> NaN], [status |-> "ok", value |-> NaN]}
    ELSE {[status |-> "ok", value |-> AucValue(y_true, score)]}

MetricsError == "ValueError: calculate_metrics"

\* The outcomes of calculate_metrics(y_true, y_pred_prob), y_pred_prob a
\* matrix of two columns.  confusion_matrix raises ValueError on arguments of
\* different lengths; line 261 unpacks ravel() into four names and raises
\* ValueError when it does not hold four entries.  The field y_pred is the
\* local y_pred of line 259, kept for the properties.
calculate_metrics(y_true, y_pred_prob) ==
    LET y_pred == Binarize(Column1(y_pred_prob))
        cm == confusion_matrix_ravel(y_true, y_pred)
    IN IF Len(y_true) # Len(y_pred_prob) \/ Len(cm) # 4
       THEN {[status |-> "raised", error |-> MetricsError, y_pred |-> y_pred]}
       ELSE LET tn == cm[1]
                fp == cm[2]
                fn == cm[3]
                tp == cm[4]
                accuracy == accuracy_score(y_true, y_pred)
                sensitivity == IF tp + fn > 0 THEN Frac(tp, tp + fn) ELSE Frac(0, 1)
                specificity == IF tn + fp > 0 THEN Frac(tn, tn + fp) ELSE Frac(0, 1)
            IN {IF a.status = "raised"
                THEN [status |-> "raised", error |-> MetricsError, y_pred |-> y_pred]
                ELSE [status |-> "ok", error |-> "none", y_pred |-> y_pred,
                      accuracy |-> accuracy, sensitivity |-> sensitivity,
                      specificity |-> specificity, roc_auc |-> a.value]
                : a \in roc_auc_score(y_true, Column1(y_pred_prob))}

\* The index of the last of the largest entries of the row.
Argmax_last(row) == IF row[2] >= row[1] THEN 1 ELSE 0

\* np.argmax of a row of two entries: the index of the first of the largest
\* entries, so 0 on a tie.
Argmax(row) == IF row[2] > row[1] THEN 1 ELSE 0

\* np.argmax(y_pred_prob, axis=1) (line 531).
ArgmaxRows(y_pred_prob) == [i \in DOMAIN y_pred_prob |-> Argmax(y_pred_prob[i])]

\* calculate_metrics(y_true, y_pred) of lines 513-519, on class predictions:
\* the same unpacking of confusion_matrix(...).ravel(), then the three
\* quotients with no guard; the counts are numpy integers, whose division by
\* zero gives nan with a warning.
calculate_metrics_unguarded(y_true, y_pred) ==
    LET cm == confusion_matrix_ravel(y_true, y_pred)
    IN IF Len(y_true) # Len(y_pred) \/ Len(cm) # 4
       THEN [status |-> "raised", error |-> MetricsError]
       ELSE LET tn == cm[1]
                fp == cm[2]
                fn == cm[3]
                tp == cm[4]
            IN [status |-> "ok", error |-> "none",
                accuracy |-> Frac(tp + tn, tp + tn + fp + fn),
                sensitivity |-> Frac(tp, tp + fn),
                specificity |-> Frac(tn, tn + fp)]

\* The confusion counts of (y_true, y_pred) as the claims name them.
TN(y_true, y_pred) == Cardinality({i \in DOMAIN y_true : y_true[i] = 0 /\ y_pred[i] = 0})
FP(y_true, y_pred) == Cardinality({i \in DOMAIN y_true : y_true[i] = 0 /\ y_pred[i] = 1})
FN(y_true, y_pred) == Cardinality({i \in DOMAIN y_true : y_true[i] = 1 /\ y_pred[i] = 0})
TP(y_true, y_pred) == Cardinality({i \in DOMAIN y_true : y_true[i] = 1 /\ y_pred[i] = 1})

----------------------------------------------------------------------------
(* StratifiedKFold(n_splits=k, shuffle=True, random_state=42) (line 269)   *)
(* and its split (line 274), after sklearn.model_selection._split.         *)

\* Python's None, as a seed.
None == 0 - 1

\* StratifiedKFold left without a seed: every split draws from numpy's
\* process-wide generator.
random_state_unseeded == None

\* The random_state the harness passes to StratifiedKFold.
random_state == 42

\* One step of the generator standing for MT19937.
Lcg(s) == (5 * s + 3) % 16

\* sklearn's check_random_state(seed): numpy's process-wide RandomState for
\* None, a RandomState freshly seeded with seed for an int.
check_random_state(seed) == IF seed = None THEN npGlobalRng ELSE seed % 16

Swap(x, i, j) == [x EXCEPT ![i] = x[j], ![j] = x[i]]

\* numpy's RandomState.shuffle(x): for i = n-1 down to 1, swap x[i] with
\* x[j], j drawn from 0..i (0-based).  i is the 0-based position; the result
\* is the shuffled array with the generator's state after it.
RECURSIVE ShuffleLoop(_, _, _)
ShuffleLoop(x, i, s) ==
    IF i < 1 THEN [arr |-> x, rng |-> s]
    ELSE LET s2 == Lcg(s)
             j == s2 % (i + 1)
         IN ShuffleLoop(Swap(x, i + 1, j + 1), i - 1, s2)

shuffle(x, s) == ShuffleLoop(x, Len(x) - 1, s)

\* The position at which label v first occurs in y.
FirstIndex(y, v) == CHOOSE i \in DOMAIN y : y[i] = v /\ \A j \in DOMAIN y : y[j] = v => i <= j

\* The classes of y in their order of first appearance, which is the order
\* _make_test_folds encodes them in (class_perm[y_inv]).
Classes(y) == Take(y, SortedSeq({FirstIndex(y, v) : v \in Range(y)}))

\* y_encoded: the 0-based number of each label's class.
Encode(y) ==
    LET cls == Classes(y)
    IN [i \in DOMAIN y |-> (CHOOSE c \in DOMAIN cls : cls[c] = y[i]) - 1]

\* np.sort(y_encoded).
RECURSIVE SortSeq(_)
SortSeq(s) ==
    IF Len(s) = 0 THEN <<>>
    ELSE LET m == CHOOSE i \in DOMAIN s : \A j \in DOMAIN s : s[i] <= s[j]
         IN <<s[m]>> \o SortSeq([j \in 1..(Len(s) - 1) |-> IF j < m THEN s[j] ELSE s[j + 1]])

\* allocation[i, c] = np.bincount(y_order[i::n_splits])[c]: how many samples
\* of class c the test set of fold i gets (i and c 0-based).
Allocation(y_order, n_splits, i, c) ==
    Cardinality({j \in DOMAIN y_order : (j - 1) % n_splits = i /\ y_order[j] = c})

\* np.arange(n_splits).repeat(allocation[:, c]), from fold i on.
RECURSIVE FoldsForClass(_, _, _, _)
FoldsForClass(y_order, n_splits, c, i) ==
    IF i >= n_splits THEN <<>>
    ELSE [j \in 1..Allocation(y_order, n_splits, i, c) |-> i]
         \o FoldsForClass(y_order, n_splits, c, i + 1)

\* test_folds[y_encoded == c] = folds_for_class: the members of class c, in
\* index order, take the entries of folds_for_class in order.
Assign(y_encoded, c, folds_for_class, test_folds) ==
    LET members == SortedSeq({i \in DOMAIN y_encoded : y_encoded[i] = c})
    IN [i \in DOMAIN y_encoded |->
          IF y_encoded[i] = c
          THEN folds_for_class[CHOOSE p \in DOMAIN members : members[p] = i]
          ELSE test_folds[i]]

\* The loop over the classes of _make_test_folds, from class c on, the
\* generator's state threaded through the shuffles.
RECURSIVE ClassLoop(_, _, _, _, _, _)
ClassLoop(y_encoded, y_order, n_splits, c, s, test_folds) ==
    IF c >= Cardinality(Range(y_encoded)) THEN [test_folds |-> test_folds, rng |-> s]
    ELSE LET sh == shuffle(FoldsForClass(y_order, n_splits, c, 0), s)
         IN ClassLoop(y_encoded, y_order, n_splits, c + 1, sh.rng,
                      Assign(y_encoded, c, sh.arr, test_folds))

\* _make_test_folds(X, y): the fold whose test set each sample is in.
MakeTestFolds(y, n_splits, s) ==
    LET y_encoded == Encode(y)
        y_order == SortSeq(y_encoded)
    IN ClassLoop(y_encoded, y_order, n_splits, 0, s, [i \in DOMAIN y |-> 0])

\* A test mask test_folds <= i in place of test_folds == i.
TestIndices_cumulative(test_folds, i) == SortedSeq({j \in DOMAIN test_folds : test_folds[j] <= i})

\* The test indices of fold i: np.where(test_folds == i), increasing.
TestIndices(test_folds, i) == SortedSeq({j \in DOMAIN test_folds : test_folds[j] = i})

\* The train indices of fold i: indices[~test_mask], increasing.
TrainIndices(test_folds, i) == SortedSeq({j \in DOMAIN test_folds : test_folds[j] # i})

\* The caller's y ordered in place, as y.sort() would leave it.
y_sorted_in_place(y) == SortSeq(y)

\* The caller's array y after skf.split(images, y): the split reads y through
\* np.asarray, np.unique, np.sort and np.bincount, which build new arrays, and
\* assigns only to its own test_folds.
y_after_split(y) == y

\* skf.split(images, labels), run to the end: ValueError when n_splits exceeds
\* the number of samples or the size of every class, else the n_splits
\* (train_idx, test_idx) pairs in order, with the generator's final state.
split(y, n_splits, seed) ==
    IF \/ n_splits > Len(y)
       \/ \A v \in Range(y) : n_splits > Cardinality({i \in DOMAIN y : y[i] = v})
    THEN [status |-> "raised", folds |-> <<>>, rng |-> check_random_state(seed)]
    ELSE LET made == MakeTestFolds(y, n_splits, check_random_state(seed))
         IN [status |-> "ok",
             folds |-> [i \in 1..n_splits |->
                          [train |-> TrainIndices(made.test_folds, i - 1),
                           test |-> TestIndices(made.test_folds, i - 1)]],
             rng |-> made.rng]

----------------------------------------------------------------------------
(* pandas: pd.DataFrame(fold_results).mean() (line 299). *)

\* Series.mean() with the default skipna=True: the mean of the entries that
\* are not nan, nan when there is none.
ColumnMean(col) ==
    LET vals == SelectSeq(col, LAMBDA v : ~IsNaN(v))
    IN IF Len(vals) = 0 THEN NaN ELSE RDivInt(RSum(vals), Len(vals))

\* The row with the means of the four metrics and the number of the last fold.
SummaryRow_last_fold(name, rows) ==
    [model |-> name,
     fold |-> Frac(Len(rows), 1),
     accuracy |-> ColumnMean([i \in DOMAIN rows |-> rows[i].accuracy]),
     sensitivity |-> ColumnMean([i \in DOMAIN rows |-> rows[i].sensitivity]),
     specificity |-> ColumnMean([i \in DOMAIN rows |-> rows[i].specificity]),
     roc_auc |-> ColumnMean([i \in DOMAIN rows |-> rows[i].roc_auc])]

\* The row appended to results (lines 299-303): the model's name and the
\* mean of every column of its fold records, the column "fold" included.
SummaryRow(name, rows) ==
    [model |-> name,
     fold |-> ColumnMean([i \in DOMAIN rows |-> Frac(rows[i].fold, 1)]),
     accuracy |-> ColumnMean([i \in DOMAIN rows |-> rows[i].accuracy]),
     sensitivity |-> ColumnMean([i \in DOMAIN rows |-> rows[i].sensitivity]),
     specificity |-> ColumnMean([i \in DOMAIN rows |-> rows[i].specificity]),
     roc_auc |-> ColumnMean([i \in DOMAIN rows |-> rows[i].roc_auc])]

----------------------------------------------------------------------------
(* federated_kfold_cross_validation (lines 268-304). *)

\* An entry of the history: what was done, for which model and fold, and the
\* train and test indices it was given; inst is the model instance a call
\* was made on or returned (0 when none), text what a print wrote.
Event(op, m, f, tr, te) ==
    [op |-> op, m |-> m, f |-> f, train |-> tr, test |-> te, inst |-> 0, text |-> <<>>]

\* The event of a call that returns or uses the model instance inst.
ModelEvent(op, m, f, tr, te, inst) == [Event(op, m, f, tr, te) EXCEPT !.inst = inst]

\* The event of a print that writes text.
PrintEvent(op, m, f, text) == [Event(op, m, f, <<>>, <<>>) EXCEPT !.text = text]

\* The fold named by the loop index, which counts from 0.
FoldText_zero_based(f, n, name) == <<"Fold", f - 1, n, name>>

\* Line 275: print(f"Fold {fold + 1}/{k} for {model_name}"), f being fold + 1.
FoldText(f, n, name) == <<"Fold", f, n, name>>

\* Line 272: print(f"Training {model_name} model across {k} folds...").
ModelText(n, name) == <<"Training", name, n>>

\* The instance the name `model` is already bound to, built once and used again.
NewInstance_reused(n, current) == IF current = 0 THEN n + 1 ELSE current

\* Line 278: model = get_model(...) runs in every pass of the fold loop and
\* get_model builds its network anew in every call (lines 202-256): the
\* instance after n earlier ones is a new one.
NewInstance(n, current) == n + 1

\* The list made once before the loops: the records of earlier models stay.
EmptyList_kept(old) == old

\* Line 273: fold_results = [] at the start of every model.
EmptyList(old) == <<>>

\* The row inserted at the front of the list.
AppendRow_front(rows, row) == <<row>> \o rows

\* Line 300: results.append(row).
AppendRow(rows, row) == Append(rows, row)

\* The exception is caught and the rows computed so far are returned.
Raise_partial(err) ==
    /\ pc' = "raised"
    /\ outcome' = [kind |-> "returned", error |-> err, value |-> results]

\* The exception is swallowed and the training call is made again.
Raise_retry(err) == pc' = "fit" /\ UNCHANGED outcome

\* An exception leaves the function: nothing is returned.
Raise(err) ==
    /\ pc' = "raised"
    /\ outcome' = [kind |-> "raised", error |-> err, value |-> <<>>]

\* Line 276: x_train = images[train_idx].
SliceTrain(tr, te) == tr

\* The held-out inputs sliced by train_idx: prediction on the training data.
SliceTest_train_idx(tr, te) == tr

\* Line 276: x_test = images[test_idx].
SliceTest(tr, te) == te

\* Line 277: y_test = labels[test_idx].
y_test == Take(labels, test_idx)

\* The value None.
PyNone == [kind |-> "None"]

\* The Fed-BioMed script is not run.
FedBioIdle ==
    /\ fb_pc = "idle"
    /\ fb_test_labels = <<>>
    /\ fb_status = "none"
    /\ fb_predictions = <<>>
    /\ fb_metrics = [kind |-> "unset"]
    /\ fb_trace = <<>>

\* No Flower client is serving.
FlowerIdle ==
    /\ fc_pc = "idle"
    /\ fc_weights = 0
    /\ fc_train_len = 0
    /\ fc_test_labels = <<>>
    /\ fc_calls = 0
    /\ fc_last = [call |-> "none"]

\* calculate_metrics is not called on its own.
MetricsIdle ==
    /\ m_y_true = <<>>
    /\ m_y_pred_prob = <<>>
    /\ m_col0 = <<>>
    /\ m_pc = "idle"
    /\ m_out = [status |-> "none"]
    /\ m_out_argmax = [status |-> "none"]

Init ==
    /\ labels \in [1..NumSamples -> {0, 1}]
    /\ k \in 2..MaxK
    /\ models \in RequestedLists
    /\ pc = "model_loop"
    /\ mi = 0
    /\ model_name = "none"
    /\ splits = <<>>
    /\ fold = 0
    /\ train_idx = <<>>
    /\ test_idx = <<>>
    /\ x_train = <<>>
    /\ x_test = <<>>
    /\ fold_results = <<>>
    /\ results = <<>>
    /\ outcome = [kind |-> "running", error |-> "none", value |-> <<>>]
    /\ npGlobalRng = 7
    /\ trace = <<>>
    /\ fold_owner = <<>>
    /\ model = 0
    /\ created = 0
    /\ MetricsIdle
    /\ FedBioIdle
    /\ FlowerIdle

\* Lines 271-274: the outer loop takes its next model, prints, empties
\* fold_results and starts skf.split(images, labels) for it.
NextModel ==
    /\ pc = "model_loop"
    /\ mi < Len(models)
    /\ mi' = mi + 1
    /\ model_name' = models[mi + 1]
    /\ fold_results' = EmptyList(fold_results)
    /\ fold_owner' = EmptyList(fold_owner)
    /\ fold' = 0
    /\ LET sp == split(labels, k, random_state)
       IN /\ trace' = trace \o <<PrintEvent("print_model", mi + 1, 0, ModelText(k, models[mi + 1])),
                                 Event("split", mi + 1, 0, <<>>, <<>>)>>
          /\ npGlobalRng' = IF random_state = None THEN sp.rng ELSE npGlobalRng
          /\ splits' = sp.folds
          /\ IF sp.status = "raised"
             THEN Raise("ValueError: n_splits")
             ELSE pc' = "fold_loop" /\ UNCHANGED outcome
    /\ labels' = y_after_split(labels)
    /\ UNCHANGED <<models, k, train_idx, test_idx, x_train, x_test,
                   results, model, created, metricVars, fbVars, fcVars>>

\* Lines 274-278: the inner loop takes its next fold, prints, slices the
\* data and builds the model with get_model.
NextFold ==
    /\ pc = "fold_loop"
    /\ fold < Len(splits)
    /\ fold' = fold + 1
    /\ train_idx' = splits[fold + 1].train
    /\ test_idx' = splits[fold + 1].test
    /\ x_train' = SliceTrain(splits[fold + 1].train, splits[fold + 1].test)
    /\ x_test' = SliceTest(splits[fold + 1].train, splits[fold + 1].test)
    /\ IF get_model(model_name).status = "raised"
       THEN /\ Raise(get_model(model_name).error)
            /\ UNCHANGED <<model, created>>
       ELSE /\ pc' = "fit"
            /\ model' = NewInstance(created, model)
            /\ created' = IF model' > created THEN model' ELSE created
            /\ UNCHANGED outcome
    /\ trace' = trace \o <<Event("next_fold", mi, fold + 1, splits[fold + 1].train,
                                 splits[fold + 1].test),
                           PrintEvent("print_fold", mi, fold + 1, FoldText(fold + 1, k, model_name)),
                           ModelEvent("get_model", mi, fold + 1, <<>>, <<>>,
                                      IF pc' = "fit" THEN model' ELSE 0)>>
    /\ UNCHANGED <<labels, models, k, mi, model_name, splits, fold_results,
                   results, npGlobalRng, fold_owner, metricVars, fbVars, fcVars>>

\* Lines 279-288: fl_algorithm.fit on the train and test nodes returns.
FitReturns ==
    /\ pc = "fit"
    /\ trace' = Append(trace, ModelEvent("fit", mi, fold, x_train, x_test, model))
    /\ pc' = "predict"
    /\ UNCHANGED <<labels, models, k, mi, model_name, splits, fold, train_idx,
                   test_idx, x_train, x_test, fold_results, results, outcome,
                   npGlobalRng, fold_owner, model, created, metricVars, fbVars, fcVars>>

\* Lines 279-288: fl_algorithm.fit raises; no handler encloses the call.
FitRaises ==
    /\ pc = "fit"
    /\ trace' = Append(trace, ModelEvent("fit", mi, fold, x_train, x_test, model))
    /\ Raise("TrainerError")
    /\ UNCHANGED <<labels, models, k, mi, model_name, splits, fold, train_idx,
                   test_idx, x_train, x_test, fold_results, results,
                   npGlobalRng, fold_owner, model, created, metricVars, fbVars, fcVars>>

\* The record of lines 292-298.
FoldRecord(o) ==
    [fold |-> fold, accuracy |-> o.accuracy, sensitivity |-> o.sensitivity,
     specificity |-> o.specificity, roc_auc |-> o.roc_auc]

\* Lines 289-298: model.predict(x_test), calculate_metrics(y_test, ...) and
\* the append to fold_results; calculate_metrics may raise.
Evaluate ==
    /\ pc = "predict"
    /\ \E score \in [1..Len(x_test) -> PredictValues] :
         \E o \in calculate_metrics(y_test, SoftmaxRows(score)) :
            /\ IF o.status = "raised"
               THEN /\ Raise(o.error)
                    /\ trace' = trace \o <<ModelEvent("predict", mi, fold, <<>>, x_test, model),
                                           Event("calculate_metrics", mi, fold, <<>>, x_test)>>
                    /\ UNCHANGED <<fold_results, fold_owner>>
               ELSE /\ trace' = trace \o <<ModelEvent("predict", mi, fold, <<>>, x_test, model),
                                           Event("calculate_metrics", mi, fold, <<>>, x_test),
                                           Event("append", mi, fold, <<>>, <<>>)>>
                    /\ fold_results' = Append(fold_results, FoldRecord(o))
                    /\ fold_owner' = Append(fold_owner, mi)
                    /\ pc' = "fold_loop"
                    /\ UNCHANGED outcome
    /\ UNCHANGED <<labels, models, k, mi, model_name, splits, fold, train_idx,
                   test_idx, x_train, x_test, results, npGlobalRng, model, created,
                   metricVars, fbVars, fcVars>>

\* Lines 299-303: the folds of the model are exhausted; its fold records
\* are averaged and the row is appended to results.
Summarise ==
    /\ pc = "fold_loop"
    /\ fold = Len(splits)
    /\ results' = AppendRow(results, SummaryRow(model_name, fold_results))
    /\ pc' = "model_loop"
    /\ UNCHANGED <<labels, models, k, mi, model_name, splits, fold, train_idx,
                   test_idx, x_train, x_test, fold_results, outcome,
                   npGlobalRng, trace, fold_owner, model, created, metricVars, fbVars, fcVars>>

\* Line 304: the models are exhausted; return pd.DataFrame(results).
Return ==
    /\ pc = "model_loop"
    /\ mi = Len(models)
    /\ pc' = "returned"
    /\ outcome' = [kind |-> "returned", error |-> "none", value |-> results]
    /\ UNCHANGED <<labels, models, k, mi, model_name, splits, fold, train_idx,
                   test_idx, x_train, x_test, fold_results, results,
                   npGlobalRng, trace, fold_owner, model, created, metricVars, fbVars, fcVars>>

Next ==
    \/ NextModel
    \/ NextFold
    \/ FitReturns
    \/ FitRaises
    \/ Evaluate
    \/ Summarise
    \/ Return

Spec == Init /\ [][Next]_vars

----------------------------------------------------------------------------
(* calculate_metrics called on its own. *)

\* tn negatives scored lo, fp negatives scored 8, fn positives scored lo and
\* tp positives scored 8: labels and scores with those confusion counts.
LabelsOfCounts(tn, fp, fn, tp) ==
    [i \in 1..(tn + fp + fn + tp) |-> IF i <= tn + fp THEN 0 ELSE 1]

ScoresOfCounts(tn, fp, fn, tp, lo) ==
    [i \in 1..(tn + fp + fn + tp) |->
        IF i <= tn THEN lo
        ELSE IF i <= tn + fp THEN 8
        ELSE IF i <= tn + fp + fn THEN lo
        ELSE 8]

\* federated_kfold_cross_validation is not run.
HarnessIdle ==
    /\ labels = <<>>
    /\ k = 2
    /\ models = <<>>
    /\ pc = "idle"
    /\ mi = 0
    /\ model_name = "none"
    /\ splits = <<>>
    /\ fold = 0
    /\ train_idx = <<>>
    /\ test_idx = <<>>
    /\ x_train = <<>>
    /\ x_test = <<>>
    /\ fold_results = <<>>
    /\ results = <<>>
    /\ outcome = [kind |-> "running", error |-> "none", value |-> <<>>]
    /\ npGlobalRng = 7
    /\ trace = <<>>
    /\ fold_owner = <<>>
    /\ model = 0
    /\ created = 0

InitMetrics ==
    /\ \/ \E n \in 1..MaxLen :
             /\ m_y_true \in [1..n -> {0, 1}]
             /\ m_y_pred_prob \in [1..n -> ProbValues]
             /\ \/ m_col0 = Column0(SoftmaxRows(m_y_pred_prob))
                \/ \E c \in ProbValues : m_col0 = [i \in 1..n |-> c]
       \/ \E tn \in 0..MaxCount, fp \in 0..MaxCount, fn \in 0..MaxCount, tp \in 0..MaxCount :
             \E lo \in {2, 5} :
                /\ tn + fp + fn + tp > 0
                /\ m_y_true = LabelsOfCounts(tn, fp, fn, tp)
                /\ m_y_pred_prob = ScoresOfCounts(tn, fp, fn, tp, lo)
                /\ m_col0 = Column0(SoftmaxRows(m_y_pred_prob))
    /\ m_pc = "ready"
    /\ m_out = [status |-> "none"]
    /\ m_out_argmax = [status |-> "none"]
    /\ HarnessIdle
    /\ FedBioIdle
    /\ FlowerIdle

\* One call calculate_metrics(m_y_true, y_pred_prob), the columns of
\* y_pred_prob being m_col0 and m_y_pred_prob.
CallCalculateMetrics ==
    /\ m_pc = "ready"
    /\ \E o \in calculate_metrics(m_y_true, Rows(m_col0, m_y_pred_prob)) : m_out' = o
    /\ m_pc' = "done"
    /\ UNCHANGED <<m_y_true, m_y_pred_prob, m_col0, m_out_argmax, harnessVars, fbVars, fcVars>>

\* Lines 531-532 on the same data: predictions = np.argmax(y_pred_prob, axis=1)
\* and calculate_metrics(test_labels, predictions) of lines 513-519.
CallArgmaxMetrics ==
    /\ m_pc \in {"ready", "done"}
    /\ m_out_argmax.status = "none"
    /\ m_out_argmax' = calculate_metrics_unguarded(m_y_true, ArgmaxRows(Rows(m_col0, m_y_pred_prob)))
    /\ UNCHANGED <<m_y_true, m_y_pred_prob, m_col0, m_pc, m_out, harnessVars, fbVars, fcVars>>

NextMetrics ==
    \/ CallCalculateMetrics
    \/ CallArgmaxMetrics

SpecMetrics == InitMetrics /\ [][NextMetrics]_vars

----------------------------------------------------------------------------
(* The Fed-BioMed colorectal script: calculate_metrics (lines 965-971, the  *)
(* text of lines 513-519), federated_training (lines 973-991) and __main__  *)
(* (lines 993-1001).                                                        *)

\* The values of result.status: the member SUCCESS the code names, and two
\* members standing for every other one.
RequestStatuses == {"SUCCESS", "FAILED", "OTHER"}

\* Every status but one failure member taken as success.
IsSuccess_not_failed(status) == status # "FAILED"

\* Line 984: result.status == ResearcherRequestStatus.SUCCESS.
IsSuccess(status) == status = "SUCCESS"

\* Line 997: `if metrics:`; None is false, the dict of three keys is true.
Truthy(v) == v.kind = "dict"

\* The calls and prints op names in fb_trace.
FbEvents(ops) == {i \in DOMAIN fb_trace : fb_trace[i] \in ops}

InitFedBio ==
    /\ \E n \in 1..MaxLen : fb_test_labels \in [1..n -> {0, 1}]
    /\ fb_pc = "start"
    /\ fb_status = "none"
    /\ fb_predictions = <<>>
    /\ fb_metrics = [kind |-> "unset"]
    /\ fb_trace = <<>>
    /\ HarnessIdle
    /\ MetricsIdle
    /\ FlowerIdle

\* Lines 974-982: create_model, ModelRequest and env.run, which returns a
\* result with some status.
FbRunReturns ==
    /\ fb_pc = "start"
    /\ \E st \in RequestStatuses : fb_status' = st
    /\ fb_trace' = fb_trace \o <<"create_model", "env.run">>
    /\ fb_pc' = "checked"
    /\ UNCHANGED <<fb_test_labels, fb_predictions, fb_metrics, harnessVars, metricVars, fcVars>>

\* Lines 974-982: env.run raises; no handler encloses the call.
FbRunRaises ==
    /\ fb_pc = "start"
    /\ fb_trace' = fb_trace \o <<"create_model", "env.run">>
    /\ fb_pc' = "raised"
    /\ UNCHANGED <<fb_test_labels, fb_status, fb_predictions, fb_metrics,
                   harnessVars, metricVars, fcVars>>

\* Lines 984-987: the status is SUCCESS; predict, argmax, calculate_metrics
\* and the return of the dict, or the exception of calculate_metrics.
FbEvaluate ==
    /\ fb_pc = "checked"
    /\ IsSuccess(fb_status)
    /\ \E score \in [DOMAIN fb_test_labels -> ProbValues] :
          LET predictions == ArgmaxRows(SoftmaxRows(score))
              o == calculate_metrics_unguarded(fb_test_labels, predictions)
          IN /\ fb_predictions' = predictions
             /\ fb_trace' = fb_trace \o <<"predict", "calculate_metrics">>
             /\ IF o.status = "raised"
                THEN fb_pc' = "raised" /\ UNCHANGED fb_metrics
                ELSE /\ fb_pc' = "returned"
                     /\ fb_metrics' = [kind |-> "dict", accuracy |-> o.accuracy,
                                       sensitivity |-> o.sensitivity,
                                       specificity |-> o.specificity]
    /\ UNCHANGED <<fb_test_labels, fb_status, harnessVars, metricVars, fcVars>>

\* Lines 988-990: any other status; print("Training failed!"), return None.
FbFailed ==
    /\ fb_pc = "checked"
    /\ ~IsSuccess(fb_status)
    /\ fb_trace' = Append(fb_trace, "print_failed")
    /\ fb_metrics' = PyNone
    /\ fb_pc' = "returned"
    /\ UNCHANGED <<fb_test_labels, fb_status, fb_predictions, harnessVars, metricVars, fcVars>>

\* Lines 997-1001: the caller prints the three values when metrics is true.
FbMain ==
    /\ fb_pc = "returned"
    /\ fb_trace' = IF Truthy(fb_metrics)
                   THEN fb_trace \o <<"print_accuracy", "print_sensitivity",
                                      "print_specificity">>
                   ELSE fb_trace
    /\ fb_pc' = "done"
    /\ UNCHANGED <<fb_test_labels, fb_status, fb_predictions, fb_metrics,
                   harnessVars, metricVars, fcVars>>

NextFedBio ==
    \/ FbRunReturns
    \/ FbRunRaises
    \/ FbEvaluate
    \/ FbFailed
    \/ FbMain

SpecFedBio == InitFedBio /\ [][NextFedBio]_vars

----------------------------------------------------------------------------
(* The Flower client CervicalCellClient (lines 639-658); its                 *)
(* calculate_metrics (lines 629-637) is the text of lines 258-266.           *)

\* The weights of the model, and the parameters a server sends: a weight
\* vector is named by a number.
WeightValues == {0, 1, 2}

\* The values model.evaluate may return as loss.
LossValues == {0, 1}

\* The call has no effect: the model keeps the weights it had.
set_weights_ignored(old, parameters) == old

\* self.model.set_weights(parameters) (lines 649 and 654): the weights of
\* the model after the call.
set_weights(old, parameters) == parameters

InitFlower ==
    /\ fc_pc = "serving"
    /\ fc_weights \in WeightValues
    /\ fc_train_len \in 1..2
    /\ \E n \in 1..MaxLen : fc_test_labels \in [1..n -> {0, 1}]
    /\ fc_calls = 0
    /\ fc_last = [call |-> "none"]
    /\ HarnessIdle
    /\ MetricsIdle
    /\ FedBioIdle

\* Lines 648-651, keras's model.fit returning: the weights are set, training
\* leaves the model with some weights, and these are returned with
\* len(self.train_images) and an empty dict.
ClientFit ==
    /\ fc_pc = "serving"
    /\ fc_calls < MaxCalls
    /\ \E parameters \in WeightValues, trained \in WeightValues :
          LET at_start == set_weights(fc_weights, parameters)
          IN /\ fc_weights' = trained
             /\ fc_last' = [call |-> "fit", parameters |-> parameters,
                            at_start |-> at_start, after |-> trained,
                            status |-> "returned",
                            ret |-> <<fc_weights', fc_train_len, <<>>>>]
    /\ fc_calls' = fc_calls + 1
    /\ UNCHANGED <<fc_pc, fc_train_len, fc_test_labels, harnessVars, metricVars, fbVars>>

\* Lines 648-650, keras's model.fit raising: the weights are set, training
\* stops at some weights and the exception leaves fit.
ClientFitRaises ==
    /\ fc_pc = "serving"
    /\ fc_calls < MaxCalls
    /\ \E parameters \in WeightValues, reached \in WeightValues :
          LET at_start == set_weights(fc_weights, parameters)
          IN /\ fc_weights' = reached
             /\ fc_last' = [call |-> "fit", parameters |-> parameters,
                            at_start |-> at_start, after |-> reached,
                            status |-> "raised", ret |-> <<>>]
    /\ fc_calls' = fc_calls + 1
    /\ fc_pc' = "raised"
    /\ UNCHANGED <<fc_train_len, fc_test_labels, harnessVars, metricVars, fbVars>>

\* Lines 653-658: the weights are set; model.evaluate and model.predict read
\* them; calculate_metrics returns, and loss, len(self.test_images) and the
\* metrics are returned, or it raises and the exception leaves evaluate.
ClientEvaluate ==
    /\ fc_pc = "serving"
    /\ fc_calls < MaxCalls
    /\ \E parameters \in WeightValues, loss \in LossValues :
         \E score \in [DOMAIN fc_test_labels -> PredictValues] :
            \E o \in calculate_metrics(fc_test_labels, SoftmaxRows(score)) :
               LET at_start == set_weights(fc_weights, parameters)
               IN /\ fc_weights' = at_start
                  /\ fc_last' = [call |-> "evaluate", parameters |-> parameters,
                                 at_start |-> at_start, after |-> at_start,
                                 status |-> IF o.status = "ok" THEN "returned" ELSE "raised",
                                 ret |-> IF o.status = "ok"
                                         THEN <<loss, Len(fc_test_labels),
                                                [accuracy |-> o.accuracy,
                                                 sensitivity |-> o.sensitivity,
                                                 specificity |-> o.specificity,
                                                 roc_auc |-> o.roc_auc]>>
                                         ELSE <<>>]
                  /\ fc_pc' = IF o.status = "ok" THEN "serving" ELSE "raised"
    /\ fc_calls' = fc_calls + 1
    /\ UNCHANGED <<fc_train_len, fc_test_labels, harnessVars, metricVars, fbVars>>

NextFlower ==
    \/ ClientFit
    \/ ClientFitRaises
    \/ ClientEvaluate

SpecFlower == InitFlower /\ [][NextFlower]_vars

----------------------------------------------------------------------------
(* Properties. *)

Zero == Frac(0, 1)

One == Frac(1, 1)

InUnit(r) == RLe(Zero, r) /\ RLe(r, One)

Unsupported == "ValueError: Unsupported model name."

Events(op) == {i \in DOMAIN trace : trace[i].op = op}

\* The run has stopped at the end of a model: its row is the last of results
\* and fold_results still holds its records.
ModelDone == pc \in {"model_loop", "returned"} /\ mi >= 1

\* The arithmetic mean of a column over the k folds: its sum divided by k.
SumOverK(col) == RDivInt(RSum(col), k)

\* Equal as values, nan taken to equal nan.
Same(a, b) == (IsNaN(a) /\ IsNaN(b)) \/ REq(a, b)

\* The precondition of the harness on its data: both classes occur.
BothClasses == Range(labels) = {0, 1}

\* C1: on data with both classes, for every requested model the summary row
\* equals, for accuracy, sensitivity, specificity and roc_auc, the sum of that
\* model's k per-fold values divided by k, and the values are those of this
\* model only.
C1_SummaryIsMeanOfFolds ==
    (BothClasses /\ ModelDone) =>
        LET row == IF pc = "returned" THEN outcome.value[mi] ELSE results[mi]
            n == Len(fold_results)
        IN /\ n = k
           /\ \A i \in 1..n : fold_owner[i] = mi
           /\ row.model = models[mi]
           /\ Same(row.accuracy, SumOverK([i \in 1..n |-> fold_results[i].accuracy]))
           /\ Same(row.sensitivity, SumOverK([i \in 1..n |-> fold_results[i].sensitivity]))
           /\ Same(row.specificity, SumOverK([i \in 1..n |-> fold_results[i].specificity]))
           /\ Same(row.roc_auc, SumOverK([i \in 1..n |-> fold_results[i].roc_auc]))

\* C2: when the requested list holds an id get_model does not know, at any
\* position, the run never returns and no training call is ever made.
C2_UnsupportedFailsBeforeTraining ==
    (\E i \in DOMAIN models : models[i] \notin SupportedModels) =>
        /\ pc # "returned"
        /\ Events("fit") = {}

\* C3: on true labels that are all negative, calculate_metrics does not
\* raise and returns sensitivity 0, whatever the predictions.
C3_AllNegativeGivesSentinel ==
    (m_pc = "done" /\ \A i \in DOMAIN m_y_true : m_y_true[i] = 0) =>
        /\ m_out.status = "ok"
        /\ m_out.sensitivity = Zero

\* C4: calculate_metrics returns accuracy (tp+tn)/(tp+tn+fp+fn), sensitivity
\* tp/(tp+fn) or 0 when tp+fn = 0, and specificity tn/(tn+fp) or 0 when
\* tn+fp = 0, for every labels and predictions.
C4_MetricsFormulas ==
    m_pc = "done" =>
        LET y_pred == Binarize(m_y_pred_prob)
            tn == TN(m_y_true, y_pred)
            fp == FP(m_y_true, y_pred)
            fn == FN(m_y_true, y_pred)
            tp == TP(m_y_true, y_pred)
        IN /\ m_out.status = "ok"
           /\ m_out.accuracy = Frac(tp + tn, tp + tn + fp + fn)
           /\ m_out.sensitivity = (IF tp + fn = 0 THEN Zero ELSE Frac(tp, tp + fn))
           /\ m_out.specificity = (IF tn + fp = 0 THEN Zero ELSE Frac(tn, tn + fp))

\* C5: within one run, the (train_idx, test_idx) pair the inner loop takes
\* for fold number i is the same for every model.
C5_SameSplitsForEveryModel ==
    \A a \in Events("next_fold"), b \in Events("next_fold") :
        trace[a].f = trace[b].f =>
            /\ trace[a].train = trace[b].train
            /\ trace[a].test = trace[b].test

C5_Witness ==
    \E a \in Events("next_fold"), b \in Events("next_fold") :
        /\ trace[a].m # trace[b].m
        /\ trace[a].f = trace[b].f
        /\ trace[a].f = k

\* The predictions made for model m, as positions of the history.
PredictsOf(m) == {i \in Events("predict") : trace[i].m = m}

\* C6: the test-index sets of the k folds are pairwise disjoint and their
\* union is the full index set; for a model whose folds are all done, every
\* sample index was held-out test data in exactly one of its folds.
C6_TestSetsPartition ==
    /\ pc \in {"fold_loop", "fit", "predict"} =>
          /\ Len(splits) = k
          /\ \A i \in 1..k, j \in 1..k :
                i # j => Range(splits[i].test) \cap Range(splits[j].test) = {}
          /\ UNION {Range(splits[i].test) : i \in 1..k} = 1..NumSamples
    /\ \A m \in 1..Len(results) :
          \A x \in 1..NumSamples :
             Cardinality({i \in PredictsOf(m) : x \in Range(trace[i].test)}) = 1

C6_Witness ==
    /\ Len(results) >= 1
    /\ BothClasses
    /\ Len(fold_results) = k
    /\ \A i \in DOMAIN fold_results : ~IsNaN(fold_results[i].roc_auc)

\* C7: for every (model, fold) whose prediction was made, the indices the
\* trainer was given as training data and the indices predicted on are
\* disjoint and together are the full index set.
C7_TrainTestDisjoint ==
    \A p \in Events("predict") :
        \E t \in Events("fit") :
            /\ t < p
            /\ trace[t].m = trace[p].m
            /\ trace[t].f = trace[p].f
            /\ Range(trace[t].train) \cap Range(trace[p].test) = {}
            /\ Range(trace[t].train) \cup Range(trace[p].test) = 1..NumSamples

C7_Witness ==
    \E p \in Events("predict") :
        /\ trace[p].m = 2
        /\ trace[p].f = k
        /\ trace[p].test # <<>>

\* C8: a run that returns has one row per requested model id, in request
\* order, and no other row.
C8_RowPerRequestedModel ==
    pc = "returned" =>
        /\ Len(outcome.value) = Len(models)
        /\ \A i \in DOMAIN models : outcome.value[i].model = models[i]

C8_Witness ==
    /\ pc = "returned"
    /\ Len(models) = 2
    /\ models[1] # models[2]
    /\ Len(outcome.value) = 2

MetricsInUnit(r) ==
    /\ InUnit(r.accuracy)
    /\ InUnit(r.sensitivity)
    /\ InUnit(r.specificity)
    /\ InUnit(r.roc_auc)

\* C9: on data with both classes, every record in fold_results and every
\* summary row has accuracy, sensitivity, specificity and roc_auc in [0, 1].
C9_MetricsInUnitInterval ==
    BothClasses =>
        /\ \A i \in DOMAIN fold_results : MetricsInUnit(fold_results[i])
        /\ \A i \in DOMAIN results : MetricsInUnit(results[i])

\* C10: when the trainer raises for a (model, fold), the outcome of the run
\* names that pair as failed and keeps the metrics of the pairs completed
\* before it.
C10_TrainerFailureRecorded ==
    (pc = "raised" /\ outcome.error = "TrainerError") =>
        /\ \E i \in DOMAIN outcome.value :
              /\ outcome.value[i].model = model_name
              /\ outcome.value[i].fold = Frac(fold, 1)
        /\ \A j \in DOMAIN results :
              \E i \in DOMAIN outcome.value : outcome.value[i] = results[j]

\* C11: for every (model, fold) the instance that is trained was built by the
\* get_model call of that same (model, fold), before the training call; no
\* other training call, of any fold or model, is made on it, and a prediction
\* is made only on the instance trained for its own (model, fold).
C11_FreshModelPerFold ==
    LET built == Events("get_model")
        fits == Events("fit")
        predicts == Events("predict")
        SamePair(a, b) == trace[a].m = trace[b].m /\ trace[a].f = trace[b].f
    IN /\ \A i \in fits :
             /\ trace[i].inst # 0
             /\ \E g \in built : g < i /\ SamePair(g, i) /\ trace[g].inst = trace[i].inst
             /\ \A j \in fits : trace[j].inst = trace[i].inst => j = i
       /\ \A p \in predicts :
             /\ \E i \in fits : i < p /\ SamePair(i, p) /\ trace[i].inst = trace[p].inst
             /\ \A q \in predicts : trace[q].inst = trace[p].inst => q = p

\* A second model has been trained on its second fold, after predictions of
\* earlier folds and of the first model.
C11_Witness ==
    /\ \E i \in Events("fit") : trace[i].m = 2 /\ trace[i].f = 2
    /\ Cardinality(Events("predict")) >= 3

\* The steps of a (model, fold) pair, in the order of lines 278-298.
PairSteps == <<"get_model", "fit", "predict", "calculate_metrics", "append">>

\* The history restricted to the steps of the pairs.
StepTrace == SelectSeq(trace, LAMBDA e : e.op \in Range(PairSteps))

\* C12: the pairs are processed one after the other in model-major order:
\* the j-th step taken is step ((j-1) mod 5)+1 of construct, train, predict,
\* compute metrics, record, of pair number ((j-1) div 5)+1, the pairs numbered
\* (1,1)..(1,k), (2,1)..(2,k), ...; so every step happens once per pair, none
\* is repeated, and a pair's training comes after the record of the pair
\* before it.
C12_SequentialModelMajor ==
    LET steps == StepTrace
    IN \A j \in DOMAIN steps :
          LET pair == (j - 1) \div Len(PairSteps)
          IN /\ steps[j].op = PairSteps[((j - 1) % Len(PairSteps)) + 1]
             /\ steps[j].m = (pair \div k) + 1
             /\ steps[j].f = (pair % k) + 1

\* A run of two models has returned: every pair of both models was processed.
C12_Witness ==
    /\ pc = "returned"
    /\ Len(models) = 2
    /\ Len(StepTrace) = 2 * k * Len(PairSteps)

\* C13: in a run that has returned, every (model, fold) has exactly one
\* per-fold print, which names that fold number (of k) and that model, and
\* there is no other per-fold print; and in every run the per-fold print of a
\* pair precedes the training call of that pair.
C13_OneProgressLinePerFold ==
    LET prints == Events("print_fold")
        PrintsOf(m, f) == {i \in prints : trace[i].m = m /\ trace[i].f = f}
    IN /\ pc = "returned" =>
             /\ \A m \in 1..Len(models) : \A f \in 1..k :
                   /\ Cardinality(PrintsOf(m, f)) = 1
                   /\ \A i \in PrintsOf(m, f) : trace[i].text = <<"Fold", f, k, models[m]>>
             /\ Cardinality(prints) = Len(models) * k
       /\ \A i \in Events("fit") : \E p \in PrintsOf(trace[i].m, trace[i].f) : p < i

\* A run of two models has returned after training on every fold.
C13_Witness ==
    /\ pc = "returned"
    /\ Len(models) = 2
    /\ Cardinality(Events("fit")) = 2 * k

\* C14: no step of a run changes the labels (the dataset, images being the
\* sample indices) or the list of model ids it was given.
C14_InputsUnchanged == [][labels' = labels /\ models' = models]_vars

\* A run on labels that are not in sorted order has split, sliced, computed
\* metrics and summarised for two models, and returned.
C14_Witness ==
    /\ pc = "returned"
    /\ Len(results) = 2
    /\ labels # SortSeq(labels)

\* C15: the prediction calculate_metrics makes for a sample is class 1 when
\* the sample's column-1 probability is strictly above 0.5 and class 0
\* otherwise, a probability equal to 0.5 included; it is so whatever column 0
\* holds.
C15_StrictThresholdOnColumn1 ==
    m_pc = "done" =>
        /\ Len(m_out.y_pred) = Len(m_y_pred_prob)
        /\ \A i \in DOMAIN m_y_pred_prob :
              /\ m_y_pred_prob[i] > 5 => m_out.y_pred[i] = 1
              /\ m_y_pred_prob[i] <= 5 => m_out.y_pred[i] = 0

\* A call has been made on a sample at the threshold whose column 0 is the
\* larger, a sample above it whose column 0 is larger still, and one below it.
C15_Witness ==
    /\ m_pc = "done"
    /\ \E i \in DOMAIN m_y_pred_prob : m_y_pred_prob[i] = 5 /\ m_col0[i] > 5
    /\ \E i \in DOMAIN m_y_pred_prob : m_y_pred_prob[i] > 5 /\ m_col0[i] >= m_y_pred_prob[i]
    /\ \E i \in DOMAIN m_y_pred_prob : m_y_pred_prob[i] < 5

\* The run has ended in get_model's error for an id that is not the first.
UnsupportedLater == pc = "raised" /\ outcome.error = Unsupported /\ mi >= 2

\* C16: when get_model raises for an unsupported id that is not the first of
\* the list, the run ends with that error and returns nothing, although the
\* rows of the models before it had been computed; nothing was done for a
\* later model, and no step follows the error.
C16_UnsupportedLaterDiscardsAll ==
    /\ [](UnsupportedLater =>
             /\ outcome.kind = "raised"
             /\ outcome.value = <<>>
             /\ models[mi] \notin SupportedModels
             /\ Len(results) = mi - 1
             /\ \A i \in DOMAIN trace : trace[i].m <= mi
             /\ \A i \in Events("fit") : trace[i].m < mi)
    /\ [][~UnsupportedLater]_vars

\* The second of three ids is unsupported: the error came after the first
\* model's row was computed, with a third id still to come.
C16_Witness ==
    /\ UnsupportedLater
    /\ mi = 2
    /\ Len(models) = 3
    /\ Len(results) = 1

\* C17: when the summary of a model is computed, fold_results holds exactly k
\* records, their fold numbers are 1..k in increasing order, and all of them
\* were computed for that model; at every moment the list holds records of
\* the current model only, one for each fold finished so far.
C17_FoldResultsOfCurrentModel ==
    /\ Len(fold_results) = Len(fold_owner)
    /\ \A i \in DOMAIN fold_results : fold_results[i].fold = i /\ fold_owner[i] = mi
    /\ pc \in {"fit", "predict"} => Len(fold_results) = fold - 1
    /\ pc = "fold_loop" => Len(fold_results) = fold
    /\ ModelDone => Len(fold_results) = k

\* The summary of a second model has been computed.
C17_Witness == ModelDone /\ mi = 2 /\ Len(results) = 2

\* C18: every summary row has a field fold, and its value is the mean of the
\* fold numbers 1..k, that is (k+1)/2.
C18_SummaryRowHoldsMeanFold ==
    /\ \A i \in DOMAIN results :
          "fold" \in DOMAIN results[i] /\ results[i].fold = Frac(k + 1, 2)
    /\ pc = "returned" =>
          \A i \in DOMAIN outcome.value : outcome.value[i].fold = Frac(k + 1, 2)

\* A run with k = 3 has returned a row, whose field fold is 2.
C18_Witness ==
    /\ pc = "returned"
    /\ k = 3
    /\ Len(outcome.value) >= 1
    /\ outcome.value[1].fold = Frac(2, 1)

\* Every row of the probability matrix sums to 1 (10 tenths).
RowsSumToOne == \A i \in DOMAIN m_y_pred_prob : m_col0[i] + m_y_pred_prob[i] = 10

\* Both functions have been called on the data.
BothCalled == m_pc = "done" /\ m_out_argmax.status # "none"

\* C19: on probability rows that sum to 1 and true labels with both classes,
\* the argmax pipeline's calculate_metrics and the harness's calculate_metrics
\* both return, with the same accuracy, sensitivity and specificity.
C19_ArgmaxAgreesWithThreshold ==
    (BothCalled /\ RowsSumToOne /\ Range(m_y_true) = {0, 1}) =>
        /\ m_out.status = "ok"
        /\ m_out_argmax.status = "ok"
        /\ m_out.accuracy = m_out_argmax.accuracy
        /\ m_out.sensitivity = m_out_argmax.sensitivity
        /\ m_out.specificity = m_out_argmax.specificity

\* Both were called on rows summing to 1, one of them a tie at 0.5, with a
\* sample above and a sample below, and labels of both classes.
C19_Witness ==
    /\ BothCalled
    /\ RowsSumToOne
    /\ Range(m_y_true) = {0, 1}
    /\ {2, 5, 8} \subseteq Range(m_y_pred_prob)

\* C20: in the Fed-BioMed script predict and calculate_metrics are called,
\* and a dict of metrics is returned, only when result.status is SUCCESS;
\* with any other status federated_training returns None after the one print
\* of the failure, and __main__ prints no metric value.
C20_MetricsOnlyOnSuccess ==
    /\ (FbEvents({"predict", "calculate_metrics"}) # {} \/ Truthy(fb_metrics)) =>
          fb_status = "SUCCESS"
    /\ (fb_pc \in {"returned", "done"} /\ fb_status # "SUCCESS") =>
          /\ fb_metrics = PyNone
          /\ fb_predictions = <<>>
          /\ fb_trace = <<"create_model", "env.run", "print_failed">>
    /\ (fb_pc \in {"returned", "done"} /\ fb_status = "SUCCESS") => Truthy(fb_metrics)

\* The script has ended after a request whose status is neither SUCCESS nor
\* the failure member.
C20_Witness == fb_pc = "done" /\ fb_status = "OTHER"

\* What C21 says of a call that has ended, apart from evaluate returning:
\* training or evaluation started on the supplied parameters; a fit whose
\* training completed returned the weights the model has after it and the
\* number of training samples; an evaluate that returned gave the number of
\* test samples and left the weights equal to the supplied parameters.
C21_OfEndedCalls ==
    fc_last.call # "none" =>
        /\ fc_last.at_start = fc_last.parameters
        /\ (fc_last.call = "fit" /\ fc_last.status = "returned") =>
              /\ fc_last.ret[1] = fc_last.after
              /\ fc_last.ret[1] = fc_weights
              /\ fc_last.ret[2] = fc_train_len
        /\ (fc_last.call = "evaluate" /\ fc_last.status = "returned") =>
              /\ fc_last.ret[2] = Len(fc_test_labels)
              /\ fc_weights = fc_last.parameters

\* C21: every call of fit or evaluate sets the model's weights to the
\* supplied parameters before it trains or evaluates; fit returns the weights
\* as they are after local training with the number of training samples;
\* every call of evaluate returns, with the number of test samples, and
\* leaves the weights equal to the supplied parameters.
C21_ClientSyncsWeights ==
    /\ C21_OfEndedCalls
    /\ fc_last.call = "evaluate" =>
          /\ fc_last.status = "returned"
          /\ fc_weights = fc_last.parameters

====
